---- MODULE Spec2Model ----
(***************************************************************************)
(* Model of the data-access layer of Classic Caps: FootballAPIService      *)
(* (five cached operations over one retry pipeline, fetchAPI) and the      *)
(* cache half of StorageService, both in src/lib/storage.ts.               *)
(*                                                                         *)
(* JavaScript runs one task at a time: an action is the synchronous code   *)
(* between two suspension points (await fetch, await sleep), so a call is  *)
(* suspended only while its request is in flight or its backoff runs.      *)
(* Time is counted in seconds (the source counts milliseconds; the TTLs    *)
(* are whole seconds), backoff delays in milliseconds.                     *)
(***************************************************************************)
EXTENDS Integers, Sequences, FiniteSets, TLC

\* ---------------------------------------------------------------- bounds
MaxCalls == 2
MaxRetryCalls == 1
MaxFaults == 1
MaxTicks == 1
MaxRow == 6
MaxCol == 5
MaxNameTokens == 3
\* Entries a memo Map may hold before its oldest is dropped: 1000 in the
\* source, scaled down here so that the Maps fill and overflow.
MemoLimit == 2
MaxLines == 4
MaxLiveCalls == 2

\* ------------------------------------------------------ program constants
MAX_RETRIES == 3
INITIAL_RETRY_DELAY == 1000
CACHE_TTL_30_DAYS == 30 * 24 * 60 * 60
CACHE_TTL_INDEFINITE == 365 * 24 * 60 * 60

\* The five operations; each stands for one call signature with fixed
\* parameters, so an operation names one cache key.
Ops == {"leagues", "seasons", "teams", "fixtures", "lineup"}

\* cacheKey of each operation that keeps a pendingRequests entry.
DedupOps == {"leagues"}

\* Mutant of TTLOf: one TTL for every resource type.
TTLOfUniform(op) == CACHE_TTL_30_DAYS

TTLOf(op) == IF op = "lineup" THEN CACHE_TTL_INDEFINITE ELSE CACHE_TTL_30_DAYS

VARIABLES
    calls,            \* the calls made so far, in order of their start
    pendingRequests,  \* cache key -> the call whose promise is stored (0: no entry)
    cache,            \* cache key -> the CacheEntry in localStorage (or NoEntry)
    quota,            \* room left in localStorage
    online,           \* navigator.onLine
    now,              \* Date.now()
    ticks,            \* number of clock advances so far
    args,             \* the arguments of a call of a pure function
    ret,              \* what that call returned
    normalizeCache,   \* NameMatchingService.normalizeCache, in insertion order
    hintCache         \* NameMatchingService.hintCache, in insertion order

vars == <<calls, pendingRequests, cache, quota, online, now, ticks, args, ret,
          normalizeCache, hintCache>>

\* ----------------------------------------------------------------- errors
NoErr == [cls |-> "none", statusCode |-> -1, msg |-> "none", retryable |-> FALSE]

APIError(statusCode, msg, retryable) ==
    [cls |-> "APIError", statusCode |-> statusCode, msg |-> msg, retryable |-> retryable]

\* A thrown value that is not an APIError: TypeError (msg: whether its message
\* contains 'fetch'), SyntaxError of response.json(), or a plain Error.
Thrown(cls, msg) == [cls |-> cls, statusCode |-> -1, msg |-> msg, retryable |-> FALSE]

\* Mutant of HandleAPIError: the default branch takes every error status
\* for retryable.
HandleAPIErrorLax(statusCode) ==
    CASE statusCode = 400 -> APIError(400, "invalid", FALSE)
      [] statusCode = 401 -> APIError(401, "auth", FALSE)
      [] statusCode = 403 -> APIError(403, "forbidden", FALSE)
      [] statusCode = 404 -> APIError(404, "notfound", FALSE)
      [] statusCode = 429 -> APIError(429, "ratelimit", TRUE)
      [] statusCode \in {500, 502, 503, 504} -> APIError(statusCode, "unavailable", TRUE)
      [] OTHER -> APIError(statusCode, "generic", statusCode >= 400)

HandleAPIError(statusCode) ==
    CASE statusCode = 400 -> APIError(400, "invalid", FALSE)
      [] statusCode = 401 -> APIError(401, "auth", FALSE)
      [] statusCode = 403 -> APIError(403, "forbidden", FALSE)
      [] statusCode = 404 -> APIError(404, "notfound", FALSE)
      [] statusCode = 429 -> APIError(429, "ratelimit", TRUE)
      [] statusCode \in {500, 502, 503, 504} -> APIError(statusCode, "unavailable", TRUE)
      [] OTHER -> APIError(statusCode, "generic", statusCode >= 500)

\* Mutant of CatchBlock: every caught value is wrapped, an APIError too.
CatchBlockRewrap(e) ==
    IF e.cls = "TypeError" /\ e.msg = "fetch" THEN APIError(0, "network", TRUE)
    ELSE APIError(0, "unexpected", TRUE)

\* The catch block of fetchAPI.
CatchBlock(e) ==
    IF e.cls = "APIError" THEN e
    ELSE IF e.cls = "TypeError" /\ e.msg = "fetch" THEN APIError(0, "network", TRUE)
    ELSE APIError(0, "unexpected", TRUE)

\* Mutant of OfflineError: the retryable argument left to its default.
OfflineErrorDefault == APIError(0, "offline", FALSE)

\* The error fetchAPI throws when isOffline().
OfflineError == APIError(0, "offline", TRUE)

\* Mutant of IsOffline: the negation of navigator.onLine is missing.
IsOfflineInverted == online

\* isOffline(): a browser always defines navigator.
IsOffline == ~online

\* -------------------------------------------------------------- responses
Statuses == {200, 404, 418, 429, 500, 501}
\* The Retry-After header of a 429 response: absent, an HTTP date, or seconds.
RetryAfters == {"none", "date", "0", "7"}

\* parseInt(retryAfter, 10): nan for a header that does not start with digits.
ParseInt(s) == IF s = "7" THEN [nan |-> FALSE, n |-> 7]
               ELSE IF s = "0" THEN [nan |-> FALSE, n |-> 0]
               ELSE [nan |-> TRUE, n |-> 0]

\* Bodies of a 200 response: unparsable, an envelope with errors, or an
\* envelope with a response list ("empty": []). For the lineup operation
\* "other" has an entry of the opposing team only, "short"/"long" have the
\* requested team with 10/12 starters, "d1"/"d2" with 11.
BodiesFor(op) ==
    {"garbage", "errors", "empty", "d1", "d2"}
        \cup (IF op = "lineup" THEN {"other", "short", "long"} ELSE {})

\* response.find(item => item.team.id === teamId) finds an entry.
HasTeam(data) == data \notin {"empty", "other"}

\* startXI.length of the entry found.
StartXILength(data) == IF data = "short" THEN 10 ELSE IF data = "long" THEN 12 ELSE 11

Http(status, body, retryAfter) ==
    [ev |-> "http", status |-> status, body |-> body, retryAfter |-> retryAfter]

NoEvent == [ev |-> "none", status |-> -1, body |-> "none", retryAfter |-> "none"]
OfflineEvent == [ev |-> "offline", status |-> -1, body |-> "none", retryAfter |-> "none"]

Responses(op) ==
    {Http(s, "none", "none") : s \in Statuses \ {200, 429}}
        \cup {Http(429, "none", ra) : ra \in RetryAfters}
        \cup {Http(200, b, "none") : b \in BodiesFor(op)}
        \cup {[ev |-> "throw", status |-> -1, body |-> m, retryAfter |-> "none"] :
                 m \in {"fetch", "other"}}

ResponseOk(status) == status >= 200 /\ status <= 299

RECURSIVE Pow2(_)
Pow2(n) == IF n = 0 THEN 1 ELSE 2 * Pow2(n - 1)

\* Mutant of HandleRateLimit: the header's seconds are not converted.
HandleRateLimitSeconds(retryAfter, retryCount) ==
    IF retryAfter # "none" /\ ~ParseInt(retryAfter).nan
    THEN ParseInt(retryAfter).n
    ELSE INITIAL_RETRY_DELAY * Pow2(retryCount)

\* handleRateLimit: the delay in ms before the retry that follows a 429.
HandleRateLimit(retryAfter, retryCount) ==
    IF retryAfter # "none" /\ ~ParseInt(retryAfter).nan
    THEN ParseInt(retryAfter).n * 1000
    ELSE INITIAL_RETRY_DELAY * Pow2(retryCount)

\* Mutants of CanRetry: one retry too many, and no retry at all.
CanRetryOffByOne(retryCount) == retryCount <= MAX_RETRIES
CanRetryNever(retryCount) == FALSE

\* `retryCount < this.MAX_RETRIES`, the guard of both retry branches.
CanRetry(retryCount) == retryCount < MAX_RETRIES

\* `response.status >= 500`, the class that the second retry branch retries.
IsServerError(status) == status >= 500

\* Mutant of HasErrors: `if (data.errors)`, true of every array.
HasErrorsTruthy(body) == TRUE

\* `data.errors && data.errors.length > 0` on a parsed body.
HasErrors(body) == body = "errors"

\* One level of fetchAPI after its request settled with r: what the level does.
\*   retry: sleep `delay`, then fetchAPI(endpoint, retryCount + 1)
\*   throw: reject with `err` (`thrown` is what was raised inside the try)
\*   return: resolve with data.response (`data`)
FetchStep(r, retryCount) ==
    LET retry(d) == [act |-> "retry", delay |-> d, thrown |-> NoErr, err |-> NoErr,
                     data |-> "none"]
        throw(e) == [act |-> "throw", delay |-> 0, thrown |-> e, err |-> CatchBlock(e),
                     data |-> "none"]
    IN  IF r.ev = "throw" THEN throw(Thrown("TypeError", r.body))
        ELSE IF r.status = 429 THEN
            IF CanRetry(retryCount)
            THEN retry(HandleRateLimit(r.retryAfter, retryCount))
            ELSE throw(HandleAPIError(r.status))
        ELSE IF ~ResponseOk(r.status) THEN
            IF IsServerError(r.status) /\ CanRetry(retryCount)
            THEN retry(INITIAL_RETRY_DELAY * Pow2(retryCount))
            ELSE throw(HandleAPIError(r.status))
        ELSE IF r.body = "garbage" THEN throw(Thrown("SyntaxError", "json"))
        ELSE IF HasErrors(r.body) THEN throw(APIError(400, "application", FALSE))
        ELSE [act |-> "return", delay |-> 0, thrown |-> NoErr, err |-> NoErr,
              data |-> r.body]

\* `return this.fetchAPI(endpoint, retryCount + 1)`: a level that retried
\* settles as the inner call settled (the returned promise is not awaited
\* inside the try, so the catch block does not see its rejection).
ReturnInner(e) == e

\* The rejection e of the innermost level as it leaves the outermost one.
RECURSIVE Propagate(_, _)
Propagate(e, levels) ==
    IF levels = 0 THEN e ELSE Propagate(ReturnInner(e), levels - 1)

\* ------------------------------------------------------------------ cache
NoEntry == [data |-> <<>>, timestamp |-> -1, ttl |-> -1]
Quotas == {"roomy", "tight", "full"}

\* isAvailable: the probe writes and removes a small item; it throws when
\* localStorage has no room left at all.
IsAvailable == quota # "full"

Expired(e) == now - e.timestamp >= e.ttl

\* getCacheEntry: whether it returns data (not null), the data, and the cache
\* afterwards.
GetCacheEntry(key) ==
    LET miss(c) == [hit |-> FALSE, data |-> <<>>, cache |-> c]
    IN  IF ~IsAvailable THEN miss(cache)
        ELSE IF cache[key] = NoEntry THEN miss(cache)
        ELSE IF Expired(cache[key]) THEN miss([cache EXCEPT ![key] = NoEntry])
        ELSE [hit |-> TRUE, data |-> cache[key].data, cache |-> cache]

\* clearExpiredCache on cache c.
ClearExpiredCache(c) ==
    IF ~IsAvailable THEN c
    ELSE [k \in Ops |-> IF c[k] # NoEntry /\ Expired(c[k]) THEN NoEntry ELSE c[k]]

\* saveCacheEntry on cache c: the ways it can go, each with the cache it
\* leaves, the number of setItem calls for the entry, whether
\* clearExpiredCache ran and whether the entry is stored. With room the write
\* succeeds; in a tight store setItem throws QuotaExceededError, the expired
\* entries are cleared and the write is tried once more, which can succeed
\* only if something was cleared.
SaveCacheEntry(c, key, data, ttl) ==
    LET entry == [data |-> data, timestamp |-> now, ttl |-> ttl]
        written(cc) == [cc EXCEPT ![key] = entry]
        cleared == ClearExpiredCache(c)
        res(cc, w, ev, st) == [cache |-> cc, writes |-> w, evicted |-> ev, stored |-> st]
    IN  IF ~IsAvailable THEN {res(c, 0, FALSE, FALSE)}
        ELSE IF quota = "roomy" THEN {res(written(c), 1, FALSE, TRUE)}
        ELSE IF cleared # c THEN {res(written(cleared), 2, TRUE, TRUE),
                                  res(cleared, 2, TRUE, FALSE)}
        ELSE {res(c, 2, TRUE, FALSE)}

\* What a call's saveCacheEntry did (called: whether the operation made one).
NoSave == [called |-> FALSE, room |-> "none", writes |-> 0, evicted |-> FALSE,
           stored |-> FALSE]
Saved(sv) == [called |-> TRUE, room |-> quota, writes |-> sv.writes,
              evicted |-> sv.evicted, stored |-> sv.stored]

\* ------------------------------------------------------------- operations
\* The value an operation builds from data.response.
Value(op, data) == <<op, data>>

\* What an operation does with the list fetchAPI returned:
\*   ok: the value it returns; save: whether it calls saveCacheEntry;
\*   err: the Error it throws instead.
\* TransformUnchecked is a mutant of it: getLineup without the 11-player check.
TransformUnchecked(op, data) ==
    LET ok(save) == [ok |-> TRUE, save |-> save, err |-> NoErr]
        fail(m) == [ok |-> FALSE, save |-> FALSE, err |-> Thrown("Error", m)]
    IN  IF op = "seasons" /\ data = "empty" THEN ok(FALSE)
        ELSE IF op = "lineup" /\ ~HasTeam(data) THEN fail("lineup not found")
        ELSE ok(TRUE)

\* Mutant of Transform: getLineup stores the lineup before it counts the players.
TransformSaveFirst(op, data) ==
    LET ok(save) == [ok |-> TRUE, save |-> save, err |-> NoErr]
        fail(m) == [ok |-> FALSE, save |-> FALSE, err |-> Thrown("Error", m)]
    IN  IF op = "seasons" /\ data = "empty" THEN ok(FALSE)
        ELSE IF op = "lineup" /\ ~HasTeam(data) THEN fail("lineup not found")
        ELSE IF op = "lineup" /\ StartXILength(data) # 11
             THEN [ok |-> FALSE, save |-> TRUE, err |-> Thrown("Error", "invalid lineup")]
        ELSE ok(TRUE)

Transform(op, data) ==
    LET ok(save) == [ok |-> TRUE, save |-> save, err |-> NoErr]
        fail(m) == [ok |-> FALSE, save |-> FALSE, err |-> Thrown("Error", m)]
    IN  IF op = "seasons" /\ data = "empty" THEN ok(FALSE)
        ELSE IF op = "lineup" /\ ~HasTeam(data) THEN fail("lineup not found")
        ELSE IF op = "lineup" /\ StartXILength(data) # 11 THEN fail("invalid lineup")
        ELSE ok(TRUE)

ResultOf(op, data) == IF op = "seasons" /\ data = "empty" THEN <<op, "empty">>
                      ELSE Value(op, data)

Pending == [kind |-> "pending", value |-> <<>>, err |-> NoErr]
Resolved(v) == [kind |-> "ok", value |-> v, err |-> NoErr]
Rejected(e) == [kind |-> "err", value |-> <<>>, err |-> e]

\* A call: the operation, where it is suspended, fetchAPI's retryCount, and
\* what happened to it so far.
NewCall(op) ==
    [op |-> op,
     pc |-> "done",          \* fetching | sleeping | settling | shared | done
     via |-> "none",         \* cache | network | shared
     retryCount |-> 0,
     attempts |-> 0,         \* network requests issued
     delay |-> 0,            \* the delay of the sleep it is in
     joined |-> 0,           \* the same-key call in flight when this one started
     owner |-> 0,            \* the call whose pending promise this one returned
     entryAtCheck |-> -1,    \* the key's pendingRequests entry when isOffline first ran
     last |-> NoEvent,       \* what its current attempt met
     nRetryable |-> 0,       \* 429/5xx responses received
     nOther |-> 0,           \* other pipeline events (response, offline, exception)
     thrown |-> NoErr,       \* what was raised inside fetchAPI
     fetched |-> Pending,    \* how fetchAPI settled
     save |-> NoSave,        \* what its saveCacheEntry did
     outcome |-> Pending]    \* how the operation settled

InFlight(c) == c.pc \in {"fetching", "sleeping", "settling"}

\* The earliest same-key call whose own request is in flight (0: none).
InFlightCall(op) ==
    LET S == {i \in 1..Len(calls) : calls[i].op = op /\ InFlight(calls[i])}
    IN  IF S = {} THEN 0 ELSE CHOOSE i \in S : \A j \in S : i <= j

TypeOK ==
    /\ Len(calls) <= MaxCalls
    /\ pendingRequests \in [Ops -> 0..MaxCalls]
    /\ quota \in Quotas
    /\ online \in BOOLEAN
    /\ now \in Nat
    /\ ticks \in 0..MaxTicks

\* No pure function is being called.
NoArgs == [fn |-> "none"]
NoRet == [done |-> FALSE]

\* The service and the storage after construction.
Fresh ==
    /\ calls = <<>>
    /\ pendingRequests = [k \in Ops |-> 0]
    /\ cache = [k \in Ops |-> NoEntry]
    /\ quota = "roomy"
    /\ online = TRUE
    /\ now = 0
    /\ ticks = 0
    /\ normalizeCache = <<>>
    /\ hintCache = <<>>

Init ==
    /\ Fresh
    /\ args = NoArgs
    /\ ret = NoRet

\* ---------------------------------------------------------------- actions
SetCall(i, c) == calls' = [calls EXCEPT ![i] = c]

\* Mutant of DeletePending: the entry is left in the map.
KeepPending(op) == pendingRequests

\* Mutant of DeletePending: the whole map is cleared.
DeletePendingAll(op) == [k \in Ops |-> 0]

\* pendingRequests.delete(cacheKey) in the finally of a deduplicating operation.
DeletePending(op) ==
    IF op \in DedupOps THEN [pendingRequests EXCEPT ![op] = 0] ELSE pendingRequests

\* fetchAPI rejected with e at the call's current level: the operation fails.
Fail(c, ev, thrownE, e) ==
    [c EXCEPT !.pc = "done", !.last = ev, !.thrown = thrownE,
              !.fetched = Rejected(e), !.outcome = Rejected(e)]

\* Mutant of PendingAtCheck: the entry is set before the async function runs.
PendingAtCheckOwn(op, id) == IF op \in DedupOps THEN id ELSE 0

\* The key's pendingRequests entry while the synchronous part of the first
\* fetchAPI runs (connectivity check, fetch): the async function is invoked
\* before pendingRequests.set, so it is the entry the call found.
PendingAtCheck(op, id) == pendingRequests[op]

\* A caller invokes an operation: the synchronous part of getLeagues,
\* getLeagueSeasons, getTeamsByLeagueSeason, getFixtures or getLineup, up to
\* the first await that suspends (fetch).
Call(op) ==
    /\ Len(calls) < MaxCalls
    /\ LET g == GetCacheEntry(op)
           id == Len(calls) + 1
           c0 == [NewCall(op) EXCEPT !.joined = InFlightCall(op)]
           c == [c0 EXCEPT !.entryAtCheck = PendingAtCheck(op, id)]
       IN  IF g.hit
           THEN /\ calls' = Append(calls, [c0 EXCEPT !.via = "cache",
                                                    !.outcome = Resolved(g.data)])
                /\ UNCHANGED <<pendingRequests, cache>>
           ELSE IF op \in DedupOps /\ pendingRequests[op] # 0
           THEN /\ calls' = Append(calls, [c0 EXCEPT !.via = "shared", !.pc = "shared",
                                                    !.owner = pendingRequests[op]])
                /\ cache' = g.cache
                /\ UNCHANGED pendingRequests
           ELSE IF IsOffline
           THEN \* fetchAPI throws before its try; with deduplication the IIFE's
                \* finally runs in a later microtask, after pendingRequests.set
                /\ calls' = Append(calls,
                      IF op \in DedupOps
                      THEN [c EXCEPT !.via = "network", !.pc = "settling",
                                     !.last = OfflineEvent, !.nOther = 1,
                                     !.thrown = OfflineError,
                                     !.fetched = Rejected(OfflineError)]
                      ELSE [Fail(c, OfflineEvent, OfflineError, OfflineError)
                               EXCEPT !.via = "network", !.nOther = 1])
                /\ cache' = g.cache
                /\ pendingRequests' = IF op \in DedupOps
                                      THEN [pendingRequests EXCEPT ![op] = id]
                                      ELSE pendingRequests
           ELSE /\ calls' = Append(calls, [c EXCEPT !.via = "network", !.pc = "fetching",
                                                   !.attempts = 1])
                /\ cache' = g.cache
                /\ pendingRequests' = IF op \in DedupOps
                                      THEN [pendingRequests EXCEPT ![op] = id]
                                      ELSE pendingRequests
    /\ UNCHANGED <<quota, online, now, ticks, args, ret, normalizeCache, hintCache>>

IsRetryableResponse(r) == r.ev = "http" /\ (r.status = 429 \/ r.status >= 500)

\* The request of call i settles with r: the rest of fetchAPI and, when it
\* returns or throws, the rest of the operation.
Respond(i, r) ==
    /\ i \in 1..Len(calls)
    /\ calls[i].pc = "fetching"
    /\ LET c0 == calls[i]
           c == [c0 EXCEPT !.last = r,
                           !.nRetryable = @ + (IF IsRetryableResponse(r) THEN 1 ELSE 0),
                           !.nOther = @ + (IF IsRetryableResponse(r) THEN 0 ELSE 1)]
           s == FetchStep(r, c.retryCount)
           t == Transform(c.op, s.data)
       IN  IF s.act = "retry"
           THEN /\ SetCall(i, [c EXCEPT !.pc = "sleeping", !.delay = s.delay])
                /\ UNCHANGED <<pendingRequests, cache>>
           ELSE IF s.act = "throw"
           THEN /\ SetCall(i, Fail(c, r, s.thrown, Propagate(s.err, c.retryCount)))
                /\ pendingRequests' = DeletePending(c.op)
                /\ UNCHANGED cache
           ELSE LET d == [c EXCEPT !.pc = "done",
                                   !.fetched = Resolved(<<s.data>>),
                                   !.outcome = IF t.ok
                                               THEN Resolved(ResultOf(c.op, s.data))
                                               ELSE Rejected(t.err)]
                IN  /\ pendingRequests' = DeletePending(c.op)
                    /\ IF t.save
                       THEN \E sv \in SaveCacheEntry(cache, c.op, ResultOf(c.op, s.data),
                                                     TTLOf(c.op)) :
                               /\ cache' = sv.cache
                               /\ SetCall(i, [d EXCEPT !.save = Saved(sv)])
                       ELSE /\ SetCall(i, d)
                            /\ UNCHANGED cache
    /\ UNCHANGED <<quota, online, now, ticks, args, ret, normalizeCache, hintCache>>

\* Mutant of Wake: fetchAPI is called again with the retryCount it had.
WakeSameCount(i) ==
    /\ i \in 1..Len(calls)
    /\ calls[i].pc = "sleeping"
    /\ SetCall(i, [calls[i] EXCEPT !.pc = "fetching", !.attempts = @ + 1,
                                   !.delay = 0, !.last = NoEvent])
    /\ UNCHANGED <<pendingRequests, cache, quota, online, now, ticks, args, ret,
                   normalizeCache, hintCache>>

\* The backoff sleep of call i ends: fetchAPI(endpoint, retryCount + 1) up to
\* its fetch.
Wake(i) ==
    /\ i \in 1..Len(calls)
    /\ calls[i].pc = "sleeping"
    /\ LET c == [calls[i] EXCEPT !.retryCount = @ + 1]
       IN  IF IsOffline
           THEN /\ SetCall(i, [Fail(c, OfflineEvent, OfflineError,
                                       Propagate(OfflineError, c.retryCount))
                                  EXCEPT !.nOther = @ + 1, !.delay = 0])
                /\ pendingRequests' = DeletePending(c.op)
           ELSE /\ SetCall(i, [c EXCEPT !.pc = "fetching", !.attempts = @ + 1,
                                        !.delay = 0, !.last = NoEvent])
                /\ UNCHANGED pendingRequests
    /\ UNCHANGED <<cache, quota, online, now, ticks, args, ret, normalizeCache, hintCache>>

\* The microtask after a deduplicating operation's fetchAPI was rejected in
\* its synchronous part: the finally block, then the promise rejects.
Finally(i) ==
    /\ i \in 1..Len(calls)
    /\ calls[i].pc = "settling"
    /\ SetCall(i, [calls[i] EXCEPT !.pc = "done", !.outcome = calls[i].fetched])
    /\ pendingRequests' = DeletePending(calls[i].op)
    /\ UNCHANGED <<cache, quota, online, now, ticks, args, ret, normalizeCache, hintCache>>

\* A caller that was handed the pending promise sees it settle.
Deliver(i) ==
    /\ i \in 1..Len(calls)
    /\ calls[i].pc = "shared"
    /\ calls[calls[i].owner].pc = "done"
    /\ SetCall(i, [calls[i] EXCEPT !.pc = "done",
                                   !.outcome = calls[calls[i].owner].outcome])
    /\ UNCHANGED <<pendingRequests, cache, quota, online, now, ticks, args, ret, normalizeCache, hintCache>>

\* navigator.onLine changes.
ToggleOnline ==
    /\ online' = ~online
    /\ UNCHANGED <<calls, pendingRequests, cache, quota, now, ticks, args, ret, normalizeCache, hintCache>>

\* Time passes: up to the last second before a TTL has run, or until it has.
Jumps == {CACHE_TTL_30_DAYS - 1, CACHE_TTL_30_DAYS,
          CACHE_TTL_INDEFINITE - 1, CACHE_TTL_INDEFINITE}

Tick(d) ==
    /\ ticks < MaxTicks
    /\ now' = now + d
    /\ ticks' = ticks + 1
    /\ UNCHANGED <<calls, pendingRequests, cache, quota, online, args, ret, normalizeCache, hintCache>>

\* Other items of the origin's localStorage (the saved game state) grow or
\* shrink.
StorageChange(q) ==
    /\ q # quota
    /\ quota' = q
    /\ UNCHANGED <<calls, pendingRequests, cache, online, now, ticks, args, ret, normalizeCache, hintCache>>

\* The 429/5xx responses received by all calls so far.
RECURSIVE SumRetryable(_)
SumRetryable(n) == IF n = 0 THEN 0 ELSE calls[n].nRetryable + SumRetryable(n - 1)

Faults == SumRetryable(Len(calls))

\* The responses the whole-system specifications draw from: one of each
\* class of Responses(op) that the operation tells apart, and two different
\* response lists.
CoreResponses(op) ==
    {Http(404, "none", "none"), Http(500, "none", "none"),
     Http(200, "d1", "none"), Http(200, "d2", "none")}
        \cup (IF op \in {"seasons", "lineup"} THEN {Http(200, "empty", "none")} ELSE {})
        \cup (IF op = "lineup" THEN {Http(200, "short", "none")} ELSE {})

OpOf(i) == IF i <= Len(calls) THEN calls[i].op ELSE "leagues"

\* The whole system: concurrent calls, connectivity, the clock and the
\* storage quota, with at most MaxFaults 429/5xx responses in a behaviour.
Next ==
    \/ \E op \in Ops : Call(op)
    \/ \E i \in 1..MaxCalls : \E r \in CoreResponses(OpOf(i)) :
          /\ IsRetryableResponse(r) => Faults < MaxFaults
          /\ Respond(i, r)
    \/ \E i \in 1..MaxCalls : Wake(i)
    \/ \E i \in 1..MaxCalls : Finally(i)
    \/ \E i \in 1..MaxCalls : Deliver(i)
    \/ ToggleOnline
    \/ \E d \in Jumps : Tick(d)
    \/ \E q \in Quotas : StorageChange(q)

Spec == Init /\ [][Next]_vars

\* The retry pipeline in full: every response class and every retry level,
\* for at most MaxRetryCalls calls, with connectivity changing; the clock and
\* the quota stay as they are.
NextRetry ==
    \/ \E op \in Ops : Len(calls) < MaxRetryCalls /\ Call(op)
    \/ \E i \in 1..MaxCalls : \E r \in Responses(OpOf(i)) : Respond(i, r)
    \/ \E i \in 1..MaxCalls : Wake(i)
    \/ \E i \in 1..MaxCalls : Finally(i)
    \/ ToggleOnline

SpecRetry == Init /\ [][NextRetry]_vars

\* The retry pipeline with what the runtime guarantees: a request in flight
\* gets its response or its exception (await fetch), a backoff timer fires
\* (setTimeout in sleep), and a queued microtask runs (the finally block).
\* Calls are made and navigator.onLine changes whenever the world chooses.
\* One response of each kind fetchAPI tells apart: retried (429, 5xx), thrown
\* at once (4xx), a fetch that throws, and data.
LiveResponses(op) ==
    {Http(429, "none", "none"), Http(500, "none", "none"), Http(404, "none", "none"),
     Http(200, "d1", "none"),
     [ev |-> "throw", status |-> -1, body |-> "fetch", retryAfter |-> "none"]}

\* A caller that was handed a pending promise runs once it has settled.
NextLive ==
    \/ \E op \in Ops : Len(calls) < MaxLiveCalls /\ Call(op)
    \/ \E i \in 1..MaxLiveCalls : \E r \in LiveResponses(OpOf(i)) : Respond(i, r)
    \/ \E i \in 1..MaxLiveCalls : Wake(i)
    \/ \E i \in 1..MaxLiveCalls : Finally(i)
    \/ \E i \in 1..MaxLiveCalls : Deliver(i)
    \/ ToggleOnline

Fairness ==
    \A i \in 1..MaxLiveCalls :
        /\ WF_vars(\E r \in LiveResponses(OpOf(i)) : Respond(i, r))
        /\ WF_vars(Wake(i))
        /\ WF_vars(Finally(i))
        /\ WF_vars(Deliver(i))

SpecLive == Init /\ [][NextLive]_vars /\ Fairness

\* Concurrent calls and request deduplication: the whole system with the
\* clock and the quota left as they are.
NextDedup ==
    \/ \E op \in Ops : Call(op)
    \/ \E i \in 1..MaxCalls : \E r \in CoreResponses(OpOf(i)) :
          /\ IsRetryableResponse(r) => Faults < MaxFaults
          /\ Respond(i, r)
    \/ \E i \in 1..MaxCalls : Wake(i)
    \/ \E i \in 1..MaxCalls : Finally(i)
    \/ \E i \in 1..MaxCalls : Deliver(i)
    \/ ToggleOnline

SpecDedup == Init /\ [][NextDedup]_vars

\* ------------------------------------------------- convertGridToPosition
\* A JavaScript number that came out of a conversion: NaN or an integer.
Num(n) == [nan |-> FALSE, n |-> n]
NaN == [nan |-> TRUE, n |-> 0]
Add(a, b) == IF a.nan \/ b.nan THEN NaN ELSE Num(a.n + b.n)

Digits == "0123456789"
CharAt(s, k) == SubSeq(s, k, k)
IsDigit(c) == \E k \in 1..Len(Digits) : CharAt(Digits, k) = c
DigitValue(c) == (CHOOSE k \in 1..Len(Digits) : CharAt(Digits, k) = c) - 1

RECURSIVE DecimalValue(_)
DecimalValue(s) ==
    IF s = "" THEN 0
    ELSE 10 * DecimalValue(SubSeq(s, 1, Len(s) - 1)) + DigitValue(CharAt(s, Len(s)))

\* Number(s) of a string of decimal digits, of the empty string (0) and of a
\* string with any other character in it (NaN; signs, fractions, exponents
\* and blanks do not occur in the strings converted here).
Number(s) ==
    IF s = "" THEN Num(0)
    ELSE IF \A k \in 1..Len(s) : IsDigit(CharAt(s, k)) THEN Num(DecimalValue(s))
    ELSE NaN

\* The first position of the one-character separator in s (0: none).
IndexOf(s, sep) ==
    LET S == {k \in 1..Len(s) : CharAt(s, k) = sep}
    IN  IF S = {} THEN 0 ELSE CHOOSE k \in S : \A j \in S : k <= j

\* s.split(sep) for a one-character separator.
RECURSIVE Split(_, _)
Split(s, sep) ==
    LET k == IndexOf(s, sep)
    IN  IF k = 0 THEN <<s>>
        ELSE <<SubSeq(s, 1, k - 1)>> \o Split(SubSeq(s, k + 1, Len(s)), sep)

\* s.split(sep).map(Number)
SplitNumbers(s, sep) == [k \in 1..Len(Split(s, sep)) |-> Number(Split(s, sep)[k])]

\* Mutant of LinesBefore: the line of row 2 is left out.
LinesBeforeStrict(row, length) ==
    IF row.nan \/ row.n - 3 <= 0 THEN 0
    ELSE IF row.n - 3 < length THEN row.n - 3 ELSE length

\* How many times the loop `for (i = 0; i < row - 2 && i < length; i++)` runs.
LinesBefore(row, length) ==
    IF row.nan \/ row.n - 2 <= 0 THEN 0
    ELSE IF row.n - 2 < length THEN row.n - 2 ELSE length

\* Mutant of AddParts: every line before the row counts four players.
AddPartsFlat(position, parts, n) == Add(position, Num(4 * n))

\* parts[0] + ... + parts[n - 1], added onto position as the loop does.
RECURSIVE AddParts(_, _, _)
AddParts(position, parts, n) ==
    IF n = 0 THEN position ELSE Add(AddParts(position, parts, n - 1), parts[n])

\* Mutant of convertGridToPosition: the column is taken as 0-indexed.
convertGridToPositionColumn0(grid, formation) ==
    LET g == SplitNumbers(grid, ":")
        row == g[1]
        col == IF Len(g) >= 2 THEN g[2] ELSE NaN
        formationParts == SplitNumbers(formation, "-")
    IN  IF ~row.nan /\ row.n = 1 THEN Num(0)
        ELSE Add(AddParts(Num(1), formationParts, LinesBefore(row, Len(formationParts))),
                 col)

convertGridToPosition(grid, formation) ==
    LET g == SplitNumbers(grid, ":")
        row == g[1]
        col == IF Len(g) >= 2 THEN g[2] ELSE NaN
        formationParts == SplitNumbers(formation, "-")
    IN  IF ~row.nan /\ row.n = 1 THEN Num(0)
        ELSE Add(AddParts(Num(1), formationParts, LinesBefore(row, Len(formationParts))),
                 Add(col, Num(-1)))

\* The formations drawn, each with its line sizes from the defensive line to
\* the attacking line, and the digit strings of the grid coordinates.
Formations ==
    {[text |-> "4-4-2", lines |-> <<4, 4, 2>>],
     [text |-> "4-3-3", lines |-> <<4, 3, 3>>],
     [text |-> "3-5-2", lines |-> <<3, 5, 2>>],
     [text |-> "5-3-2", lines |-> <<5, 3, 2>>],
     [text |-> "4-2-3-1", lines |-> <<4, 2, 3, 1>>],
     [text |-> "4-1-4-1", lines |-> <<4, 1, 4, 1>>],
     [text |-> "3-4-1-2", lines |-> <<3, 4, 1, 2>>]}

DigitString(n) == CharAt(Digits, n + 1)
NumberString(n) ==
    IF n < 10 THEN DigitString(n) ELSE DigitString(n \div 10) \o DigitString(n % 10)
GridString(row, col) == NumberString(row) \o ":" \o NumberString(col)

\* The ten outfield players in up to MaxLines lines of at least one player.
RECURSIVE Total(_)
Total(lines) == IF Len(lines) = 0 THEN 0 ELSE lines[1] + Total(Tail(lines))

LineUps == {ls \in UNION {[1..k -> 1..10] : k \in 1..MaxLines} : Total(ls) = 10}

\* The formation string of the lines, "4-4-2".
RECURSIVE FormationText(_)
FormationText(lines) ==
    IF Len(lines) = 1 THEN NumberString(lines[1])
    ELSE NumberString(lines[1]) \o "-" \o FormationText(Tail(lines))

\* The startXI of a response: the goalkeeper at 1:1, then the players of
\* lines 1..r, line q in row q + 1, each with the grid string the API sends.
RECURSIVE StartXI(_, _)
StartXI(lines, r) ==
    IF r = 0 THEN <<[grid |-> GridString(1, 1), row |-> 1, col |-> 1]>>
    ELSE StartXI(lines, r - 1) \o [c \in 1..lines[r] |->
                                     [grid |-> GridString(r + 1, c), row |-> r + 1,
                                      col |-> c]]

\* getLineup converts the grid of a player: any row and column of the API's
\* grid, for any of the formations.
InitGrid ==
    /\ Fresh
    /\ ret = NoRet
    /\ \/ \E f \in Formations : \E row \in 1..MaxRow : \E col \in 1..MaxCol :
             args = [fn |-> "convertGridToPosition",
                     grid |-> GridString(row, col), formation |-> f.text,
                     row |-> row, col |-> col, lines |-> f.lines]
       \/ \E ls \in LineUps :
             args = [fn |-> "startXI", formation |-> FormationText(ls), lines |-> ls,
                     startXI |-> StartXI(ls, Len(ls))]

ConvertGrid ==
    /\ args.fn = "convertGridToPosition"
    /\ ~ret.done
    /\ ret' = [done |-> TRUE, position |-> convertGridToPosition(args.grid, args.formation)]
    /\ UNCHANGED <<calls, pendingRequests, cache, quota, online, now, ticks, args,
                   normalizeCache, hintCache>>

\* getLineup maps the startXI of the team's lineup, converting each grid.
ConvertStartXI ==
    /\ args.fn = "startXI"
    /\ ~ret.done
    /\ ret' = [done |-> TRUE,
               gridPosition |-> [p \in 1..Len(args.startXI) |->
                   convertGridToPosition(args.startXI[p].grid, args.formation)]]
    /\ UNCHANGED <<calls, pendingRequests, cache, quota, online, now, ticks, args,
                   normalizeCache, hintCache>>

NextGrid ==
    \/ ConvertGrid
    \/ ConvertStartXI

SpecGrid == InitGrid /\ [][NextGrid]_vars

\* ---------------------------------------------------- NameMatchingService
\* The letters that change under toLowerCase.
UpperCaseLetters == "ABCDEFGHIJKLMNOPQRSTUVWXYZ"
LowerCaseLetters == "abcdefghijklmnopqrstuvwxyz"

\* Accented letters are written decomposed, as normalize('NFD') leaves them:
\* the base letter followed by its combining mark, with ^ standing for
\* the combining acute and ~ for the combining tilde, two of the marks that
\* the replace removes.
CombiningMarks == "^~"

\* c replaced by its counterpart in `to` when it occurs in `from`.
MapChar(c, from, to) ==
    IF \E k \in 1..Len(from) : CharAt(from, k) = c
    THEN CharAt(to, CHOOSE k \in 1..Len(from) : CharAt(from, k) = c)
    ELSE c

RECURSIVE MapChars(_, _, _)
MapChars(s, from, to) ==
    IF s = "" THEN "" ELSE MapChar(CharAt(s, 1), from, to) \o MapChars(Tail(s), from, to)

\* Mutant of ToLowerCase: the text is left in the case it has.
ToLowerCaseKept(s) == s

ToLowerCase(s) == MapChars(s, UpperCaseLetters, LowerCaseLetters)
ToUpperCase(s) == MapChars(s, LowerCaseLetters, UpperCaseLetters)

\* name.normalize('NFD').replace(<the marks U+0300..U+036F>, '') on a decomposed
\* string: the combining marks are dropped.
RECURSIVE RemoveDiacritics(_)
RemoveDiacritics(s) ==
    IF s = "" THEN ""
    ELSE IF \E k \in 1..Len(CombiningMarks) : CharAt(CombiningMarks, k) = CharAt(s, 1)
         THEN RemoveDiacritics(Tail(s))
    ELSE CharAt(s, 1) \o RemoveDiacritics(Tail(s))

\* White space as trim() and \s see it (blank and tab are the ones drawn).
IsSpace(c) == c \in {" ", "\t"}

RECURSIVE TrimStart(_)
TrimStart(s) == IF s # "" /\ IsSpace(CharAt(s, 1)) THEN TrimStart(Tail(s)) ELSE s

RECURSIVE TrimEnd(_)
TrimEnd(s) ==
    IF s # "" /\ IsSpace(CharAt(s, Len(s))) THEN TrimEnd(SubSeq(s, 1, Len(s) - 1)) ELSE s

Trim(s) == TrimEnd(TrimStart(s))

\* s.split(/\s+/): the pieces between maximal runs of white space (an empty
\* piece before a leading run and after a trailing one).
RECURSIVE SplitSpaces(_)
SplitSpaces(s) ==
    LET S == {k \in 1..Len(s) : IsSpace(CharAt(s, k))}
        k == CHOOSE i \in S : \A j \in S : i <= j
    IN  IF S = {} THEN <<s>>
        ELSE <<SubSeq(s, 1, k - 1)>> \o SplitSpaces(TrimStart(SubSeq(s, k, Len(s))))

\* parts.join(' ')
RECURSIVE Join(_)
Join(parts) ==
    IF Len(parts) = 0 THEN ""
    ELSE IF Len(parts) = 1 THEN parts[1]
    ELSE parts[1] \o " " \o Join(Tail(parts))

\* parts.slice(-n)
SliceLast(parts, n) ==
    SubSeq(parts, (IF Len(parts) > n THEN Len(parts) - n ELSE 0) + 1, Len(parts))

\* Mutant of normalize: the white space is trimmed before the marks go.
normalizeTrimFirst(name) == ToLowerCase(RemoveDiacritics(Trim(name)))

\* What normalize(name) computes when the name is not in normalizeCache.
normalize(name) == Trim(ToLowerCase(RemoveDiacritics(name)))

\* A memo Map is the sequence of its entries in insertion order.
Has(memo, key) == \E k \in 1..Len(memo) : memo[k].key = key

\* Mutant of Get: the key is handed back in place of the stored value.
GetKey(memo, key) == key

Get(memo, key) == memo[CHOOSE k \in 1..Len(memo) : memo[k].key = key].value

\* if (firstKey): the empty string is falsy.
Truthy(key) == key # ""

\* memo.set(key, value) of a key the Map does not hold, then the size check
\* that deletes the first key of the Map.
Memoize(memo, key, value) ==
    LET set == Append(memo, [key |-> key, value |-> value])
    IN  IF Len(set) > MemoLimit /\ Truthy(set[1].key) THEN Tail(set) ELSE set

\* A call normalize(name) on a service whose normalizeCache is memo: the
\* value returned and the Map afterwards.
normalizeMemo(memo, name) ==
    IF Has(memo, name) THEN [value |-> Get(memo, name), memo |-> memo]
    ELSE [value |-> normalize(name), memo |-> Memoize(memo, name, normalize(name))]

prefixes == {"de", "van", "von", "del", "della", "di", "da", "le", "la", "el", "al",
             "dos", "das", "mac", "mc"}

getLastName(name) ==
    LET nameParts == SplitSpaces(Trim(name))
        n == Len(nameParts)
    IN  IF n = 1 THEN nameParts[1]
        ELSE IF ToLowerCase(nameParts[n - 1]) \in prefixes THEN Join(SliceLast(nameParts, 2))
        ELSE IF /\ n >= 3
                /\ ToLowerCase(nameParts[n - 2]) \in prefixes
                /\ \/ ToLowerCase(nameParts[n - 1]) \in prefixes
                   \/ ToLowerCase(nameParts[n - 1]) = "der"
                   \/ ToLowerCase(nameParts[n - 1]) = "den"
             THEN Join(SliceLast(nameParts, 3))
        ELSE nameParts[n]

\* Mutant of isMatch: the guess may be any one word of the name.
isMatchAnyWord(guess, actualName) ==
    \E k \in 1..Len(SplitSpaces(Trim(actualName))) :
        normalize(guess) = normalize(SplitSpaces(Trim(actualName))[k])

\* A call isMatch(guess, actualName) on a service whose normalizeCache is
\* memo: the value returned and the Map after its two or three normalize calls.
isMatchMemo(memo, guess, actualName) ==
    LET normalizedGuess == normalizeMemo(memo, guess)
        lastName == getLastName(actualName)
        normalizedLastName == normalizeMemo(normalizedGuess.memo, lastName)
        lastNameParts == SplitSpaces(lastName)
        finalPart == normalizeMemo(normalizedLastName.memo,
                                   lastNameParts[Len(lastNameParts)])
    IN  IF normalizedGuess.value = normalizedLastName.value
        THEN [value |-> TRUE, memo |-> normalizedLastName.memo]
        ELSE IF Len(lastNameParts) > 1
             THEN [value |-> normalizedGuess.value = finalPart.value,
                   memo |-> finalPart.memo]
        ELSE [value |-> FALSE, memo |-> normalizedLastName.memo]

\* What a call isMatch(guess, actualName) returns in the current state.
isMatch(guess, actualName) == isMatchMemo(normalizeCache, guess, actualName).value

\* Mutant of HintChar: the period is not among the characters kept.
HintCharNoPeriod(char) ==
    IF char = "-" THEN "-" ELSE IF char = "'" THEN "'" ELSE "_"

\* The callback of the map in generateLetterHint.
HintChar(char) ==
    IF char = "-" THEN "-"
    ELSE IF char = "'" THEN "'"
    ELSE IF char = "." THEN "."
    ELSE "_"

\* s.split('').map(HintChar).join('')
RECURSIVE MapHint(_)
MapHint(s) == IF s = "" THEN "" ELSE HintChar(CharAt(s, 1)) \o MapHint(Tail(s))

\* A call generateLetterHint(name) on a service whose hintCache is memo: the
\* value returned and the Map afterwards.
generateLetterHintMemo(memo, name) ==
    IF Has(memo, name) THEN [value |-> Get(memo, name), memo |-> memo]
    ELSE LET hint == MapHint(getLastName(name))
         IN  [value |-> hint, memo |-> Memoize(memo, name, hint)]

\* What a call generateLetterHint(name) returns in the current state.
generateLetterHint(name) == generateLetterHintMemo(hintCache, name).value

\* The words the names are made of, each with its lower-case form: an
\* ordinary first name and family name, prefixes in either case, "der", "den".
Words ==
    {[text |-> "Jan", lower |-> "jan"], [text |-> "Cruz", lower |-> "cruz"],
     [text |-> "de", lower |-> "de"], [text |-> "La", lower |-> "la"],
     [text |-> "der", lower |-> "der"], [text |-> "den", lower |-> "den"]}

\* A name of words ws put together with `text` in between and around them.
NameOf(ws, text) ==
    [text |-> text,
     tokens |-> [k \in 1..Len(ws) |-> ws[k].text],
     lower |-> [k \in 1..Len(ws) |-> ws[k].lower]]

\* Every name of up to MaxNameTokens words, single blanks between them.
PlainNames ==
    {NameOf(ws, Join([k \in 1..Len(ws) |-> ws[k].text])) :
        ws \in UNION {[1..n -> Words] : n \in 1..MaxNameTokens}}

\* Names of players as the API gives them, and names with accents, padding
\* and runs of white space.
PlayerNames ==
    {[text |-> "Matthijs de Ligt", tokens |-> <<"Matthijs", "de", "Ligt">>,
      lower |-> <<"matthijs", "de", "ligt">>],
     [text |-> "Cristiano Ronaldo", tokens |-> <<"Cristiano", "Ronaldo">>,
      lower |-> <<"cristiano", "ronaldo">>],
     [text |-> "Juan de la Cruz", tokens |-> <<"Juan", "de", "la", "Cruz">>,
      lower |-> <<"juan", "de", "la", "cruz">>],
     [text |-> "Jan van der Berg", tokens |-> <<"Jan", "van", "der", "Berg">>,
      lower |-> <<"jan", "van", "der", "berg">>],
     [text |-> "Jose^ Gime^nez", tokens |-> <<"Jose^", "Gime^nez">>,
      lower |-> <<"jose^", "gime^nez">>],
     [text |-> "A^ngel Di Mari^a", tokens |-> <<"A^ngel", "Di", "Mari^a">>,
      lower |-> <<"a^ngel", "di", "mari^a">>],
     [text |-> "Iker Mun~iain", tokens |-> <<"Iker", "Mun~iain">>,
      lower |-> <<"iker", "mun~iain">>],
     [text |-> " Neymar ", tokens |-> <<"Neymar">>, lower |-> <<"neymar">>],
     [text |-> "Frenkie  de\tJong", tokens |-> <<"Frenkie", "de", "Jong">>,
      lower |-> <<"frenkie", "de", "jong">>]}

Names == PlainNames \cup PlayerNames

\* The guesses tried against a name: every run of its words (a first name,
\* a prefix alone, the family name, the whole name), those in capitals and
\* padded, the last word without its first or its last letter, and guesses
\* typed without accents or left empty.
Guesses(nm) ==
    LET n == Len(nm.tokens)
        runs == {Join(SubSeq(nm.tokens, i, j)) : i \in 1..n, j \in 1..n}
        last == nm.tokens[n]
    IN  runs \cup {ToUpperCase(g) : g \in runs} \cup {" " \o g \o " " : g \in runs}
             \cup {Tail(last), SubSeq(last, 1, Len(last) - 1)}
             \cup {"", "gimenez", "maria", "muniain", "ligt", "de ligt", "matthijs"}

\* Names whose hints are asked for: apostrophes, hyphens and periods in the
\* last name and before it, last names of one, two and three words, pairs
\* of last names of one shape, and the names of the project's test report.
HintNames ==
    {"Sean O'Brien", "Tom O'Grady", "O'Brien", "Trent Alexander-Arnold",
     "James Ward-Prowse", "Neymar Jr.", "Vinicius Jr.", "Jean-Pierre",
     "N'Golo Kante", "Bruno Fernandes", "Matthijs de Ligt", "Kevin De Bruyne",
     "Jan van der Berg", "Frenkie  de\tJong", " Neymar "}

\* Strings given to normalize: empty, padded with an accent and capitals, a
\* mark in front of white space, and one that is normalized already.
NormalizeInputs == {"", " Jose^ ", "^ A~", "jose"}

\* Names given to generateLetterHint on a service that lives on.
MemoHintInputs == {"", "Sean O'Brien", "Matthijs de Ligt"}

InitNames ==
    /\ Fresh
    /\ ret = NoRet
    /\ \/ \E nm \in Names :
             args = [fn |-> "getLastName", name |-> nm.text,
                     tokens |-> nm.tokens, lower |-> nm.lower]
       \/ \E nm \in Names : \E g \in Guesses(nm) :
             args = [fn |-> "isMatch", guess |-> g, actualName |-> nm.text,
                     tokens |-> nm.tokens, lower |-> nm.lower]
       \/ \E name \in HintNames : args = [fn |-> "generateLetterHint", name |-> name]
       \/ \E name \in NormalizeInputs \cup {nm.text : nm \in PlayerNames} :
             args = [fn |-> "normalize", name |-> name, again |-> FALSE]

GetLastName ==
    /\ args.fn = "getLastName"
    /\ ~ret.done
    /\ ret' = [done |-> TRUE, lastName |-> getLastName(args.name)]
    /\ UNCHANGED <<calls, pendingRequests, cache, quota, online, now, ticks, args,
                   normalizeCache, hintCache>>

IsMatch ==
    /\ args.fn = "isMatch"
    /\ ~ret.done
    /\ ret' = [done |-> TRUE, matched |-> isMatch(args.guess, args.actualName)]
    /\ normalizeCache' = isMatchMemo(normalizeCache, args.guess, args.actualName).memo
    /\ UNCHANGED <<calls, pendingRequests, cache, quota, online, now, ticks, args,
                   hintCache>>

Normalize ==
    /\ args.fn = "normalize"
    /\ ~ret.done
    /\ ret' = [done |-> TRUE, cached |-> Has(normalizeCache, args.name),
               normalized |-> normalizeMemo(normalizeCache, args.name).value]
    /\ normalizeCache' = normalizeMemo(normalizeCache, args.name).memo
    /\ UNCHANGED <<calls, pendingRequests, cache, quota, online, now, ticks, args,
                   hintCache>>

GenerateLetterHint ==
    /\ args.fn = "generateLetterHint"
    /\ ~ret.done
    /\ ret' = [done |-> TRUE, cached |-> Has(hintCache, args.name),
               hint |-> generateLetterHint(args.name)]
    /\ hintCache' = generateLetterHintMemo(hintCache, args.name).memo
    /\ UNCHANGED <<calls, pendingRequests, cache, quota, online, now, ticks, args,
                   normalizeCache>>

NextNames ==
    \/ GetLastName
    \/ IsMatch
    \/ Normalize
    \/ GenerateLetterHint

SpecNames == InitNames /\ [][NextNames]_vars

\* The exported nameMatchingService lives as long as the page: a caller
\* makes its next call once the last one has returned, with a string of its
\* own or with what normalize has just returned.
Invoke ==
    /\ args = NoArgs \/ ret.done
    /\ \/ \E name \in NormalizeInputs :
             args' = [fn |-> "normalize", name |-> name, again |-> FALSE]
       \/ /\ args # NoArgs
          /\ args.fn = "normalize"
          /\ args' = [fn |-> "normalize", name |-> ret.normalized, again |-> TRUE]
       \/ \E name \in MemoHintInputs :
             args' = [fn |-> "generateLetterHint", name |-> name]
    /\ ret' = NoRet
    /\ UNCHANGED <<calls, pendingRequests, cache, quota, online, now, ticks,
                   normalizeCache, hintCache>>

NextMemo ==
    \/ Invoke
    \/ Normalize
    \/ GenerateLetterHint

SpecMemo == Init /\ [][NextMemo]_vars

\* The cache over time: concurrent calls whose requests settle at once (no
\* retry), the clock and the storage quota, with the network up.
NextCache ==
    \/ \E op \in Ops : Call(op)
    \/ \E i \in 1..MaxCalls : \E r \in CoreResponses(OpOf(i)) :
          /\ ~IsRetryableResponse(r)
          /\ Respond(i, r)
    \/ \E i \in 1..MaxCalls : Deliver(i)
    \/ \E d \in Jumps : Tick(d)
    \/ \E q \in Quotas : StorageChange(q)

SpecCache == Init /\ [][NextCache]_vars

\* The page is loaded again: a new service over the localStorage an earlier
\* session left, empty or with the leagues entry that session stored.
InitKeys ==
    /\ calls = <<>>
    /\ pendingRequests = [k \in Ops |-> 0]
    /\ cache \in {[k \in Ops |-> NoEntry],
                  [k \in Ops |-> IF k = "leagues"
                                 THEN [data |-> ResultOf(k, "d1"), timestamp |-> 0,
                                       ttl |-> TTLOf(k)]
                                 ELSE NoEntry]}
    /\ quota = "roomy"
    /\ online = TRUE
    /\ now = 0
    /\ ticks = 0
    /\ normalizeCache = <<>>
    /\ hintCache = <<>>
    /\ args = NoArgs
    /\ ret = NoRet

SpecKeys == InitKeys /\ [][NextCache]_vars

\* ================================================================= claims
CallIds == 1..Len(calls)
Network(i) == calls[i].via = "network"
Settled(i) == calls[i].pc = "done"
IsData(body) == body \in {"empty", "other", "d1", "d2", "short", "long"}

\* C1: for each of the five operations, a call made while an earlier call
\* with the same cache key has its request in flight (and the cache has no
\* entry) issues no request of its own and settles as the earlier call does.
C1_DedupEveryOperation ==
    \A j \in CallIds :
        (calls[j].joined # 0 /\ calls[j].via # "cache") =>
            /\ calls[j].via = "shared"
            /\ calls[j].attempts = 0
            /\ (Settled(j) /\ Settled(calls[j].joined)) =>
                   calls[j].outcome = calls[calls[j].joined].outcome

\* C2: once the operation behind a pendingRequests entry has settled, with a
\* result or with an error, the map holds no entry for the key; so a caller
\* is handed a pending promise only while its request is in flight, and a
\* call made after a failure starts a request of its own.
C2_PendingCleanedUp ==
    /\ \A k \in Ops :
          pendingRequests[k] # 0 =>
              /\ pendingRequests[k] \in CallIds
              /\ calls[pendingRequests[k]].op = k
              /\ InFlight(calls[pendingRequests[k]])
    /\ \A j \in CallIds :
          calls[j].via = "shared" =>
              /\ calls[j].owner # 0
              /\ calls[j].owner = calls[j].joined

\* C2 witness: a getLeagues call failed offline at once, the map was cleaned
\* and the next getLeagues call issued a request.
C2_Witness ==
    /\ Len(calls) = 2
    /\ calls[1].op = "leagues" /\ Settled(1) /\ calls[1].outcome.kind = "err"
    /\ calls[1].last.ev = "offline"
    /\ calls[2].op = "leagues" /\ Network(2) /\ calls[2].attempts = 1
    /\ calls[2].joined = 0

\* C3: a request all of whose attempts were answered by 429 or 5xx responses
\* makes exactly 4 network attempts and then rejects with an APIError that is
\* retryable and carries the status of the last response.
C3_RetryExhaustion ==
    \A i \in CallIds :
        (Settled(i) /\ Network(i) /\ calls[i].nOther = 0) =>
            /\ calls[i].attempts = 4
            /\ calls[i].nRetryable = 4
            /\ calls[i].retryCount = 3
            /\ calls[i].fetched.kind = "err"
            /\ calls[i].fetched.err.cls = "APIError"
            /\ calls[i].fetched.err.retryable
            /\ calls[i].fetched.err.statusCode = calls[i].last.status
            /\ calls[i].outcome = calls[i].fetched

C3_Witness ==
    \E i \in CallIds :
        /\ Settled(i) /\ Network(i) /\ calls[i].nOther = 0
        /\ calls[i].last.status = 429
        /\ calls[i].fetched.err.statusCode = 429

\* C4: after k <= 3 retryable responses (429 or 5xx) a 200 response with a
\* response list and no errors makes fetchAPI resolve with that list after
\* exactly k + 1 attempts; the operation resolves with the value built from
\* it (getLineup: when the list holds the team with eleven starters).
C4_RetryThenSuccess ==
    \A i \in CallIds :
        (/\ Network(i)
         /\ calls[i].last.ev = "http" /\ calls[i].last.status = 200
         /\ IsData(calls[i].last.body)
         /\ calls[i].nOther = 1) =>
            /\ Settled(i)
            /\ calls[i].nRetryable <= 3
            /\ calls[i].attempts = calls[i].nRetryable + 1
            /\ calls[i].fetched = Resolved(<<calls[i].last.body>>)
            /\ (calls[i].op # "lineup" \/ calls[i].last.body \in {"d1", "d2"}) =>
                   calls[i].outcome = Resolved(<<calls[i].op, calls[i].last.body>>)

\* C4 witness: two retryable responses, then a 200: success at the third
\* attempt.
C4_Witness ==
    \E i \in CallIds :
        /\ calls[i].nRetryable = 2 /\ calls[i].nOther = 1
        /\ calls[i].attempts = 3
        /\ calls[i].outcome.kind = "ok"

C6_AtMostThreeAttempts == \A i \in CallIds : calls[i].attempts <= 3

\* C6 amended: a request never makes more than 4 network attempts, the
\* initial one and 3 retries.
C6_AtMostFourAttempts ==
    \A i \in CallIds :
        /\ calls[i].attempts <= 4
        /\ calls[i].retryCount <= 3
        /\ calls[i].attempts <= calls[i].retryCount + 1

C6_Witness == \E i \in CallIds : calls[i].attempts = 4 /\ calls[i].pc = "fetching"

\* C7: a 4xx response other than 429, or a success status with a non-empty
\* errors list, ends the request on that response with a non-retryable
\* APIError (statusCode the HTTP status for 4xx), without a delay or another
\* attempt, at any retry count.
C7_ClientErrorsFailAtOnce ==
    \A i \in CallIds :
        LET r == calls[i].last
            clientError == r.status >= 400 /\ r.status <= 499 /\ r.status # 429
            appError == r.status >= 200 /\ r.status <= 299 /\ r.body = "errors"
        IN  (r.ev = "http" /\ (clientError \/ appError)) =>
                /\ Settled(i)
                /\ calls[i].fetched.kind = "err"
                /\ calls[i].fetched.err.cls = "APIError"
                /\ ~calls[i].fetched.err.retryable
                /\ clientError => calls[i].fetched.err.statusCode = r.status
                /\ calls[i].outcome = calls[i].fetched
                /\ calls[i].attempts = calls[i].retryCount + 1
                /\ calls[i].nRetryable = calls[i].retryCount

\* C7 witness: a 4xx response of the default branch after two retries.
C7_Witness ==
    \E i \in CallIds :
        /\ calls[i].last.ev = "http" /\ calls[i].last.status = 418
        /\ calls[i].retryCount = 2
        /\ Settled(i)

\* C8: an attempt that finds the connectivity signal offline issues no
\* network request and fails with APIError(0, retryable).
C8_OfflineFailsWithoutRequest ==
    [][\A i \in 1..Len(calls') :
          LET starts == i > Len(calls) /\ calls'[i].via = "network"
              retries == i <= Len(calls) /\ calls[i].pc = "sleeping"
                             /\ calls'[i].pc # "sleeping"
              before == IF i <= Len(calls) THEN calls[i].attempts ELSE 0
          IN  ((starts \/ retries) /\ ~online) =>
                  /\ calls'[i].attempts = before
                  /\ calls'[i].pc \in {"done", "settling"}
                  /\ calls'[i].fetched.kind = "err"
                  /\ calls'[i].fetched.err.cls = "APIError"
                  /\ calls'[i].fetched.err.statusCode = 0
                  /\ calls'[i].fetched.err.retryable
                  /\ calls'[i].pc = "done" => calls'[i].outcome = calls'[i].fetched]_vars

\* C8 witness: a retry found the signal offline after two requests.
C8_Witness ==
    \E i \in CallIds :
        /\ calls[i].last.ev = "offline" /\ calls[i].retryCount = 2
        /\ calls[i].attempts = 2 /\ Settled(i)

\* C9: every rejection of fetchAPI is an APIError: an APIError raised at any
\* retry level leaves unchanged, anything else raised (a transport exception,
\* an unparsable body) leaves as APIError(0, retryable).
C9_AlwaysAPIError ==
    \A i \in CallIds :
        calls[i].fetched.kind = "err" =>
            /\ calls[i].fetched.err.cls = "APIError"
            /\ calls[i].thrown.cls = "APIError" => calls[i].fetched.err = calls[i].thrown
            /\ calls[i].thrown.cls # "APIError" =>
                   /\ calls[i].thrown.cls \in {"TypeError", "SyntaxError"}
                   /\ calls[i].fetched.err.statusCode = 0
                   /\ calls[i].fetched.err.retryable

\* C9 witness: an APIError raised at the third retry level reached the
\* caller as it was raised.
C9_Witness ==
    \E i \in CallIds :
        /\ calls[i].retryCount = 3 /\ Settled(i)
        /\ calls[i].thrown.cls = "APIError" /\ calls[i].thrown.statusCode = 404
        /\ calls[i].outcome.err = calls[i].thrown

\* C10: a call made while the cache holds a non-expired entry for its key
\* returns that entry and makes no connectivity check and no request.
C10_CacheHitNoNetwork ==
    [][\A op \in Ops :
          (/\ Len(calls') = Len(calls) + 1
           /\ calls'[Len(calls')].op = op
           /\ cache[op] # NoEntry
           /\ ~Expired(cache[op])) =>
              /\ calls'[Len(calls')].via = "cache"
              /\ calls'[Len(calls')].pc = "done"
              /\ calls'[Len(calls')].attempts = 0
              /\ calls'[Len(calls')].outcome = Resolved(cache[op].data)]_vars

\* The call that a step starts (the step's lookup is its getCacheEntry).
Started == calls'[Len(calls')]
Starts(op) == Len(calls') = Len(calls) + 1 /\ Started.op = op

\* C11: a lookup of a stored entry returns its data iff now - timestamp < ttl;
\* when now - timestamp >= ttl it returns absent and the entry is removed.
C11_LookupByTTL ==
    [][\A op \in Ops :
          (Starts(op) /\ cache[op] # NoEntry) =>
              /\ (Started.via = "cache" /\ Started.outcome = Resolved(cache[op].data))
                     <=> (now - cache[op].timestamp < cache[op].ttl)
              /\ (now - cache[op].timestamp >= cache[op].ttl) => cache'[op] = NoEntry]_vars

\* C11 with the storage probe succeeding (not the claim: what remains true).
LookupByTTLWhenAvailable ==
    [][\A op \in Ops :
          (Starts(op) /\ cache[op] # NoEntry /\ IsAvailable) =>
              /\ (Started.via = "cache" /\ Started.outcome = Resolved(cache[op].data))
                     <=> (now - cache[op].timestamp < cache[op].ttl)
              /\ (now - cache[op].timestamp >= cache[op].ttl) => cache'[op] = NoEntry]_vars

\* The request of call i settles in this step and the operation resolves.
ResolvesFromFetch(i) ==
    /\ i <= Len(calls) /\ calls[i].pc = "fetching"
    /\ calls'[i].pc = "done" /\ calls'[i].outcome.kind = "ok"

\* C12 as stated: every operation that resolves from a fetch leaves its
\* result in the cache under its key, with the 30-day TTL (365 days for a
\* lineup), and a repeat of the call before expiry, with storage available,
\* is answered from the cache without a request.
C12_EveryFetchWritesThrough ==
    [][\A op \in Ops :
          /\ \A i \in 1..MaxCalls :
                (ResolvesFromFetch(i) /\ calls[i].op = op) =>
                    cache'[op] = [data |-> calls'[i].outcome.value, timestamp |-> now,
                                  ttl |-> IF op = "lineup" THEN 365 * 24 * 60 * 60
                                          ELSE 30 * 24 * 60 * 60]
          /\ (Starts(op) /\ cache[op] # NoEntry /\ IsAvailable /\ ~Expired(cache[op])) =>
                (Started.via = "cache" /\ Started.attempts = 0)]_vars

\* C12, amended: every operation that resolves from a fetch, except
\* getLeagueSeasons resolving with the empty list for an empty response, makes
\* one saveCacheEntry call with its result, its key and the 30-day TTL (365
\* days for a lineup); the write is best-effort: it stores the entry when the
\* storage has room and may store nothing when the quota is exhausted. An
\* entry that was stored answers a repeat of the call before expiry, with
\* storage available, from the cache without a request.
C12_FetchWritesThroughBestEffort ==
    [][\A op \in Ops :
          /\ \A i \in 1..MaxCalls :
                (ResolvesFromFetch(i) /\ calls[i].op = op) =>
                    IF op = "seasons" /\ calls'[i].outcome.value = <<"seasons", "empty">>
                    THEN ~calls'[i].save.called /\ cache' = cache
                    ELSE /\ calls'[i].save.called
                         /\ quota = "roomy" => calls'[i].save.stored
                         /\ calls'[i].save.stored =>
                               cache'[op] = [data |-> calls'[i].outcome.value,
                                             timestamp |-> now,
                                             ttl |-> IF op = "lineup"
                                                     THEN 365 * 24 * 60 * 60
                                                     ELSE 30 * 24 * 60 * 60]
                         /\ ~calls'[i].save.stored => cache'[op] \in {cache[op], NoEntry}
          /\ (Starts(op) /\ cache[op] # NoEntry /\ IsAvailable /\ ~Expired(cache[op])) =>
                /\ Started.via = "cache" /\ Started.attempts = 0
                /\ Started.outcome = Resolved(cache[op].data)]_vars

\* Witness: a lineup fetched and stored, then the same call one second before
\* the 365 days have run, answered from the cache.
C12_Witness ==
    \E i, j \in CallIds :
        /\ i < j /\ calls[i].op = "lineup" /\ calls[j].op = "lineup"
        /\ Network(i) /\ calls[i].save.stored
        /\ calls[j].via = "cache" /\ calls[j].outcome = calls[i].outcome
        /\ now = 365 * 24 * 60 * 60 - 1

\* C13: the sleep before the n-th retry of a request (n = 1, 2, 3) lasts
\* 1000, 2000, 4000 ms after a 429 or a 5xx response, except that after a 429
\* whose Retry-After header gives s whole seconds it lasts s * 1000 ms.
C13_RetryDelays ==
    \A i \in CallIds :
        calls[i].pc = "sleeping" =>
            LET n == calls[i].retryCount + 1
                r == calls[i].last
            IN  /\ n \in 1..3
                /\ r.status = 429 \/ r.status >= 500
                /\ calls[i].delay =
                      IF r.status = 429 /\ r.retryAfter = "7" THEN 7 * 1000
                      ELSE IF r.status = 429 /\ r.retryAfter = "0" THEN 0
                      ELSE IF n = 1 THEN 1000
                      ELSE IF n = 2 THEN 2000
                      ELSE 4000

\* Witness: a request asleep before its third retry, after three retryable
\* responses of which the last was a 500.
C13_Witness ==
    \E i \in CallIds :
        /\ calls[i].pc = "sleeping" /\ calls[i].retryCount = 2
        /\ calls[i].last.status = 500 /\ calls[i].delay = 4000
        /\ calls[i].nRetryable = 3

\* C14: getLineup fails with a plain Error that is neither an APIError nor
\* retryable when the payload has no entry of the requested team or that
\* entry's starting list is not of exactly 11 players, and every lineup it
\* returns from a fetch has exactly 11 starters.
C14_LineupValidation ==
    \A i \in CallIds :
        (calls[i].op = "lineup" /\ Settled(i) /\ calls[i].fetched.kind = "ok") =>
            LET payload == calls[i].last.body
                starters == IF payload = "short" THEN 10
                            ELSE IF payload = "long" THEN 12 ELSE 11
            IN  /\ (payload \in {"empty", "other"} \/ starters # 11) =>
                      /\ calls[i].outcome.kind = "err"
                      /\ calls[i].outcome.err.cls = "Error"
                      /\ ~calls[i].outcome.err.retryable
                      /\ ~calls[i].save.called
                /\ calls[i].outcome.kind = "ok" =>
                      /\ calls[i].outcome.value = <<"lineup", payload>>
                      /\ payload \in {"d1", "d2"}

\* Witness: a lineup payload with 12 starters, rejected after a retried 500.
C14_Witness ==
    \E i \in CallIds :
        /\ calls[i].op = "lineup" /\ Settled(i)
        /\ calls[i].last.body = "long" /\ calls[i].attempts = 2
        /\ calls[i].outcome.kind = "err" /\ calls[i].outcome.err.cls = "Error"

\* A call of convertGridToPosition has returned.
GridDone == args.fn = "convertGridToPosition" /\ ret.done

\* C15: for formation "4-4-2", grid "1:1" gives index 0, "2:1".."2:4" give
\* 1..4, "3:1".."3:4" give 5..8, and "4:1", "4:2" give 9 and 10.
C15_Grid442 ==
    LET expected == ("1:1" :> 0) @@ ("2:1" :> 1) @@ ("2:2" :> 2) @@ ("2:3" :> 3)
                    @@ ("2:4" :> 4) @@ ("3:1" :> 5) @@ ("3:2" :> 6) @@ ("3:3" :> 7)
                    @@ ("3:4" :> 8) @@ ("4:1" :> 9) @@ ("4:2" :> 10)
    IN  (GridDone /\ args.formation = "4-4-2" /\ args.grid \in DOMAIN expected) =>
            ret.position = [nan |-> FALSE, n |-> expected[args.grid]]

\* Witness: the second striker of a 4-4-2 converted to index 10.
C15_Witness ==
    /\ GridDone /\ args.formation = "4-4-2" /\ args.grid = "4:2"
    /\ ret.position.n = 10

\* The sum of the line sizes of rows from..to of a formation: row r holds
\* line r - 1 of the formation; a row past the attacking line holds nobody.
RECURSIVE SumOfRows(_, _, _)
SumOfRows(lines, from, to) ==
    IF to < from THEN 0
    ELSE SumOfRows(lines, from, to - 1) + (IF to - 1 <= Len(lines) THEN lines[to - 1] ELSE 0)

\* C16 as stated: row 1 maps to index 0 and a row >= 2 to 1 + the line sizes
\* of the rows strictly between row 2 and this row + (column - 1).
C16_IndexStrictlyBetween ==
    GridDone =>
        ret.position = [nan |-> FALSE,
                        n |-> IF args.row = 1 THEN 0
                              ELSE 1 + SumOfRows(args.lines, 3, args.row - 1)
                                     + (args.col - 1)]

\* C16, amended: row 1 maps to index 0 and a row >= 2 to 1 + the line sizes
\* of the rows from row 2 up to, not including, this row + (column - 1).
C16_IndexFromRow2 ==
    GridDone =>
        ret.position = [nan |-> FALSE,
                        n |-> IF args.row = 1 THEN 0
                              ELSE 1 + SumOfRows(args.lines, 2, args.row - 1)
                                     + (args.col - 1)]

\* Witness: the striker's row of a 4-2-3-1 (row 5), after lines of 4, 2 and 3.
C16_Witness ==
    /\ GridDone /\ args.formation = "4-2-3-1" /\ args.grid = "5:1"
    /\ ret.position.n = 10

\* C17: a saveCacheEntry call made while the storage quota is exhausted
\* evicts the expired entries and attempts the write exactly one more time
\* (two setItem calls in all), and returns normally whether or not the entry
\* was stored.
C17_QuotaEvictAndRetryOnce ==
    \A i \in CallIds :
        (calls[i].save.called /\ calls[i].save.room # "roomy") =>
            /\ calls[i].save.evicted
            /\ calls[i].save.writes = 2
            /\ calls[i].outcome.kind = "ok"

\* C17 with the storage probe succeeding (not the claim: what remains true).
EvictAndRetryWhenProbeSucceeds ==
    \A i \in CallIds :
        (calls[i].save.called /\ calls[i].save.room = "tight") =>
            /\ calls[i].save.evicted
            /\ calls[i].save.writes = 2
            /\ calls[i].outcome.kind = "ok"

\* A call of isMatch, of getLastName has returned.
MatchDone == args.fn = "isMatch" /\ ret.done
LastNameDone == args.fn = "getLastName" /\ ret.done

C19_LastName ==
    LastNameDone =>
        LET t == args.tokens
            l == args.lower
            n == Len(t)
        IN  /\ n = 1 => ret.lastName = t[1]
            /\ (n >= 2 /\ l[n - 1] \in prefixes) =>
                  ret.lastName = t[n - 1] \o " " \o t[n]
            /\ (n >= 2 /\ l[n - 1] \notin prefixes \cup {"der", "den"}) =>
                  ret.lastName = t[n]
            /\ args.name = "Matthijs de Ligt" => ret.lastName = "de Ligt"
            /\ args.name = "Cristiano Ronaldo" => ret.lastName = "Ronaldo"

\* Witness: a capitalised prefix before the last word of a three-word name.
C19_Witness ==
    /\ LastNameDone /\ args.name = "Jan La Cruz"
    /\ ret.lastName = "La Cruz"

\* C20: for a name of at least three words getLastName returns the last
\* three words joined by blanks whenever the third-to-last word is a prefix
\* and the second-to-last is a prefix itself or is "der" or "den".
C20_ThreeWordLastName ==
    LastNameDone =>
        LET t == args.tokens
            l == args.lower
            n == Len(t)
        IN  (/\ n >= 3
             /\ l[n - 2] \in prefixes
             /\ l[n - 1] \in prefixes \cup {"der", "den"}) =>
                ret.lastName = t[n - 2] \o " " \o t[n - 1] \o " " \o t[n]

\* C20 for "der" and "den" only (not the claim: what remains true).
ThreeWordLastNameDerDen ==
    LastNameDone =>
        LET t == args.tokens
            l == args.lower
            n == Len(t)
        IN  (n >= 3 /\ l[n - 2] \in prefixes /\ l[n - 1] \in {"der", "den"}) =>
                ret.lastName = t[n - 2] \o " " \o t[n - 1] \o " " \o t[n]

\* ------------------------------------------------------------ letter hints
HintDone == args.fn = "generateLetterHint" /\ ret.done

\* The characters a hint shows as they are.
Punctuation == {"-", "'", "."}

\* Two strings of one length with the same punctuation at the same indices.
SameShape(a, b) ==
    /\ Len(a) = Len(b)
    /\ \A k \in 1..Len(a) :
          (CharAt(a, k) \in Punctuation \/ CharAt(b, k) \in Punctuation) =>
              CharAt(a, k) = CharAt(b, k)

C22_SpacesPreserved ==
    HintDone =>
        \A k \in 1..Len(getLastName(args.name)) :
            CharAt(getLastName(args.name), k) = " " =>
                (k <= Len(ret.hint) /\ CharAt(ret.hint, k) = " ")

\* -------------------------------------------------------------- the memos
NormalizeDone == args.fn = "normalize" /\ ret.done

\* C23: normalize is idempotent: given what it has returned, it returns the
\* same string again, whatever normalizeCache holds at either call.
C23_NormalizeIdempotent ==
    (NormalizeDone /\ args.again) => ret.normalized = args.name

\* "^ A~" has given "a", the Map has filled up since, and normalize("a") has
\* returned.
C23_Witness ==
    /\ NormalizeDone
    /\ args.again
    /\ args.name = "a"
    /\ Len(normalizeCache) >= MemoLimit

\* C24: after any sequence of normalize and generateLetterHint calls, the
\* empty string among the inputs, neither Map holds more entries than its
\* limit.
C24_MemoBounded ==
    /\ Len(normalizeCache) <= MemoLimit
    /\ Len(hintCache) <= MemoLimit

\* C25: the memos are transparent: whatever the Maps hold, a call returns
\* what the computation on its input gives.
C25_MemoTransparent ==
    /\ NormalizeDone => ret.normalized = normalize(args.name)
    /\ HintDone => ret.hint = MapHint(getLastName(args.name))

\* A call answered from a Map that has reached its limit.
C25_Witness ==
    /\ NormalizeDone
    /\ ret.cached
    /\ args.name = " Jose^ "
    /\ ret.normalized = "jose"
    /\ Len(normalizeCache) >= MemoLimit

\* ------------------------------------------------- requests on different keys
\* Call i, whose request was in flight, settles in this step.
Settles(i) == i \in CallIds /\ calls[i].pc = "fetching" /\ calls'[i].pc = "done"

\* A request on key k is in flight.
KeyInFlight(k) == \E j \in CallIds : calls[j].op = k /\ InFlight(calls[j])

\* What the caller of call i, settling in this step, receives comes from the
\* response to its own request.
ReceivesOwnResult(i) ==
    calls'[i].outcome.kind = "ok" =>
        calls'[i].outcome.value = ResultOf(calls[i].op, calls'[i].last.body)

Owns(i) == calls[i].op \in DedupOps /\ Network(i)

\* C27: in a deduplicating operation the key's pendingRequests entry is added
\* before the connectivity check and the first network request of the call
\* are performed, and is removed only after the operation has settled.
C27_EntryBeforeStart ==
    \A i \in CallIds : Owns(i) =>
        /\ calls[i].entryAtCheck = i
        /\ InFlight(calls[i]) => pendingRequests[calls[i].op] = i

\* C27 as the code has it: the connectivity check and the first request are
\* performed with no entry for the key; the entry is there once the
\* synchronous part of the call is over, and stays until the operation has
\* settled.
C27_EntryAfterStart ==
    \A i \in CallIds : Owns(i) =>
        /\ calls[i].entryAtCheck = 0
        /\ InFlight(calls[i]) => pendingRequests[calls[i].op] = i

\* A getLeagues call that found the network down, its entry set and its
\* finally block still to run, after an earlier one that has settled.
C27_Witness ==
    \E i, j \in CallIds :
        /\ i < j
        /\ Owns(i) /\ Settled(i)
        /\ Owns(j) /\ calls[j].pc = "settling"
        /\ calls[j].entryAtCheck = 0
        /\ pendingRequests[calls[j].op] = j

\* --------------------------------------------------- failures and the cache
\* Call i fails in this step: it was not settled before (or starts in this
\* step) and is settled with an error after.
Fails(i) ==
    /\ i \in 1..Len(calls')
    /\ i \in CallIds => calls[i].pc # "done"
    /\ calls'[i].pc = "done"
    /\ calls'[i].outcome.kind = "err"

XIDone == args.fn = "startXI" /\ ret.done

\* C29: for a formation of lines of positive sizes that sum to 10 and a
\* starting eleven with the grids 1:1 and (r+1):c for every line r and column
\* c of it, the eleven indices are numbers, pairwise distinct, and cover
\* 0..10, the players of line r in the block that starts at 1 + the sizes of
\* the lines before r.
C29_LineupFillsIndices ==
    XIDone =>
        LET P == 1..Len(args.startXI)
            pos(p) == ret.gridPosition[p]
        IN  /\ \A p \in P : ~pos(p).nan
            /\ \A p, q \in P : p # q => pos(p).n # pos(q).n
            /\ {pos(p).n : p \in P} = 0..10
            /\ \A p \in P :
                  pos(p).n = IF args.startXI[p].row = 1 THEN 0
                             ELSE 1 + SumOfRows(args.lines, 2, args.startXI[p].row - 1)
                                    + (args.startXI[p].col - 1)

\* The eleven of a 1-6-3 have been converted, the last forward to index 10.
C29_Witness ==
    /\ XIDone
    /\ args.formation = "1-6-3"
    /\ args.startXI[11].grid = "4:3"
    /\ ret.gridPosition[11] = Num(10)
    /\ ret.gridPosition[3] = Num(2)

\* ------------------------------------------------------------ termination
\* C30: every call eventually settles, given that each request and each
\* backoff delay completes: whatever the responses and the connectivity
\* changes, each retry raises the retry count by one, no retry is made once
\* it is 3, and a call that was started is at last resolved or rejected.
C30_EveryCallSettles ==
    /\ [][\A i \in CallIds :
             /\ calls'[i].retryCount >= calls[i].retryCount
             /\ (calls[i].pc = "sleeping" /\ calls'[i].pc # "sleeping") =>
                    calls'[i].retryCount = calls[i].retryCount + 1]_vars
    /\ [](\A i \in CallIds :
             /\ calls[i].retryCount <= MAX_RETRIES
             /\ calls[i].pc = "sleeping" => calls[i].retryCount < MAX_RETRIES)
    /\ \A i \in 1..MaxLiveCalls :
          (Len(calls) >= i) ~> (Len(calls) >= i /\ calls[i].pc = "done"
                                              /\ calls[i].outcome.kind # "pending")

\* A call has been rejected at its third retry, the network having gone down
\* during the last backoff.
C30_Witness ==
    \E i \in CallIds :
        /\ Settled(i)
        /\ calls[i].retryCount = MAX_RETRIES
        /\ calls[i].nRetryable = MAX_RETRIES
        /\ calls[i].last = OfflineEvent
        /\ calls[i].outcome.kind = "err"
====
